---- MODULE Spec2Model ----
(***************************************************************************)
(* One websocket connection of the LSP bridge (src/lsp_server.py): the     *)
(* endpoint handler (pyright_endpoint / clangd_endpoint), the supervised   *)
(* backend process (LanguageServerProcess.__aenter__ / __aexit__), the     *)
(* frame reader (read_msg) and the multiplexing loop (connect_ws),         *)
(* together with their environment: the client, the backend process, the   *)
(* event loop's child watcher and the host's preemption signal.            *)
(*                                                                         *)
(* Every handler action runs from one await to the next, as the event loop *)
(* runs a coroutine; the environment moves between them.                   *)
(***************************************************************************)
EXTENDS Integers, Sequences, FiniteSets, TLC

\* Bounds of the model.
MaxClientMsgs == 2      \* text messages the client sends
MaxFrames == 3          \* frames the backend writes to its stdout

PYTHON_LANGSERVER == "pyright-langserver --stdio"
CLANGD_LANGSERVER == "clangd --log=error --background-index=false --malloc-trim"

VARIABLES
    command,            \* self._command
    compiler_options,   \* self._compiler_options: None or a string, its characters in order
    pc,                 \* the await the endpoint handler is suspended at
    tmpdir,             \* self._tmpdir: "None", "empty" (directory alone), "written" (with compile_flags.txt), "removed"
    compile_flags,      \* the file compile_flags.txt of the scratch directory
    flagsAtSpawn,       \* the file as it was when the process was launched
    proc,               \* the OS process: "none", "running", "exited"
    returncode,         \* self._proc.returncode as the event loop knows it: "None" or "set"
    stdout,             \* frames written by the process and not yet read
    nEmitted,           \* frames the process has written so far
    stdin,              \* bodies written to the process's stdin by send_msg, in order
    client,             \* "connected" or "disconnected"
    wsInbox,            \* what receive_text will return next: texts, then the disconnect
    nSent,              \* texts the client has sent so far
    wsOut,              \* bodies sent on the client channel by send_text, in order
    closeReason,        \* reason of the websocket.close the bridge issued, "none" if it issued none
    ws_read,            \* the task ws_read: "none", "pending", "done", "consumed", "cancelled"
    ws_result,          \* its result once done
    proc_read,          \* the task proc_read, likewise
    proc_result,
    wsLive,             \* client-side read tasks created and neither consumed nor cancelled
    procLive,           \* process-side read tasks created and neither consumed nor cancelled
    done,               \* the set asyncio.wait returned in this round
    discarded,          \* frames read and dropped by the handshake loop
    n_messages_from_ws,
    n_messages_from_lsp,
    now,                \* time.time(), in seconds since the connection was accepted
    last_log_time,
    reports,            \* the reports printed so far: the two counts and the time of each
    raised,             \* the first exception raised inside the handler's body, "none" if none
    exc,                \* the exception in flight through `async with`
    escaped,            \* the exception that left the endpoint handler
    aexitCalls,         \* invocations of __aexit__
    killCalls,          \* invocations of os.killpg
    sigterm,            \* what SIGTERM was delivered to while the process ran: "none", "group", "process"
    events,             \* the release steps, in the order they happened
    preempted,          \* the host's KeyboardInterrupt has been delivered
    writer,             \* who wrote the bytes of `pipe`: "none", "send_msg" or "backend"
    msg,                \* the str given to send_msg, as its code points
    pipe,               \* the bytes of a pipe, as written
    pipe_eof,           \* the writing end of the pipe is closed
    codec_pc,           \* "idle", "send" (send_msg to be called), "read" (read_msg to be called), "done"
    read_result         \* what read_msg returned or raised, and what it left in the pipe

connVars == << command, compiler_options, pc, tmpdir, compile_flags, flagsAtSpawn, proc, returncode, stdout, nEmitted,
           stdin, client, wsInbox, nSent, wsOut, closeReason, ws_read, ws_result,
           proc_read, proc_result, wsLive, procLive, done, discarded,
           n_messages_from_ws, n_messages_from_lsp, now, last_log_time, reports,
           raised, exc, escaped, aexitCalls, killCalls, sigterm, events, preempted >>

codecVars == << writer, msg, pipe, pipe_eof, codec_pc, read_result >>

vars == << connVars, codecVars >>

envVars == << proc, returncode, stdout, nEmitted, client, wsInbox, nSent >>
taskVars == << ws_read, ws_result, proc_read, proc_result, wsLive, procLive, done >>
countVars == << n_messages_from_ws, n_messages_from_lsp, last_log_time, reports >>
cfgVars == << command, compiler_options >>
fileVars == << compile_flags, flagsAtSpawn >>

NoResult == [kind |-> "none", id |-> 0]

\* compiler_options: None, or a str given by its characters.
OptNone == [is_none |-> TRUE, text |-> << >>]
OptStr(t) == [is_none |-> FALSE, text |-> t]

\* The two routes: /pyright never passes options, /clangd may.
Endpoints ==
    { [cmd |-> PYTHON_LANGSERVER, opts |-> OptNone],
      [cmd |-> CLANGD_LANGSERVER, opts |-> OptNone],
      [cmd |-> CLANGD_LANGSERVER, opts |-> OptStr(<< "-", "a", " ", "-", "b" >>)] }

(***************************************************************************)
(* compile_flags.txt: "\n".join(self._compiler_options.split())            *)
(***************************************************************************)
Whitespace == { " ", "\n" }

\* str.split() without arguments: the maximal runs of non-whitespace characters.
\* cur is the run being read, acc the runs read so far.
RECURSIVE SplitAcc(_, _, _)
SplitAcc(t, cur, acc) ==
    IF t = << >> THEN (IF cur = << >> THEN acc ELSE Append(acc, cur))
    ELSE IF Head(t) \in Whitespace
      THEN SplitAcc(Tail(t), << >>, IF cur = << >> THEN acc ELSE Append(acc, cur))
      ELSE SplitAcc(Tail(t), Append(cur, Head(t)), acc)

Split(t) == SplitAcc(t, << >>, << >>)

\* "\n".join(tokens)
RECURSIVE Join(_)
Join(tokens) ==
    IF tokens = << >> THEN << >>
    ELSE IF Len(tokens) = 1 THEN Head(tokens)
    ELSE Head(tokens) \o << "\n" >> \o Join(Tail(tokens))

\* What `f.write` puts into compile_flags.txt.
\* (variant: the options string written as it came)
FlagsText_Raw(t) == t

FlagsText(t) == Join(Split(t))

NoFile == [state |-> "absent", text |-> << >>]

\* `assert self._command == CLANGD_LANGSERVER`
\* (variant: no assert)
SupportsOptions_Any(cmd) == TRUE

SupportsOptions(cmd) == cmd = CLANGD_LANGSERVER

\* Frames the handshake loop reads before bridging: range(2) for pyright, none for clangd.
\* (variant: the handshake loop reads one frame only)
DrainCount_One(cmd) == IF cmd = PYTHON_LANGSERVER THEN 1 ELSE 0

DrainCount(cmd) == IF cmd = PYTHON_LANGSERVER THEN 2 ELSE 0

\* A connection before accept: no scratch directory, no process, no task.
Fresh ==
    /\ pc = "accept"
    /\ tmpdir = "None"
    /\ compile_flags = NoFile
    /\ flagsAtSpawn = NoFile
    /\ proc = "none"
    /\ returncode = "None"
    /\ stdout = << >>
    /\ nEmitted = 0
    /\ stdin = << >>
    /\ client = "connected"
    /\ wsInbox = << >>
    /\ nSent = 0
    /\ wsOut = << >>
    /\ closeReason = "none"
    /\ ws_read = "none"
    /\ ws_result = NoResult
    /\ proc_read = "none"
    /\ proc_result = NoResult
    /\ wsLive = 0
    /\ procLive = 0
    /\ done = {}
    /\ discarded = << >>
    /\ n_messages_from_ws = 0
    /\ n_messages_from_lsp = 0
    /\ now = 0
    /\ last_log_time = 0
    /\ reports = << >>
    /\ raised = "none"
    /\ exc = "none"
    /\ escaped = "none"
    /\ aexitCalls = 0
    /\ killCalls = 0
    /\ sigterm = "none"
    /\ events = << >>
    /\ preempted = FALSE

NoRead == [kind |-> "none", body |-> << >>, declared |-> 0, rest |-> << >>]

\* No pipe under study.
CodecIdle ==
    /\ writer = "none"
    /\ msg = << >>
    /\ pipe = << >>
    /\ pipe_eof = FALSE
    /\ codec_pc = "idle"
    /\ read_result = NoRead

Init ==
    /\ \E e \in Endpoints : command = e.cmd /\ compiler_options = e.opts
    /\ Fresh
    /\ CodecIdle

(***************************************************************************)
(* read_msg: one header line, the separator, the body.                     *)
(***************************************************************************)
\* The header lines a backend may write: a well-formed one, one with the wrong
\* literal prefix, one whose length is not a number.
Headers == { "Content-Length: n", "ContentLength: n", "Content-Length: x" }

\* readline() returns: a line when one is buffered, b"" once the process has
\* closed its stdout, and blocks otherwise.
ReadReady(buf, p) == buf # << >> \/ p # "running"

read_msg(buf) ==
    IF buf = << >> THEN [kind |-> "LSPExited", id |-> 0]
    ELSE IF Head(buf).header = "ContentLength: n" THEN [kind |-> "Exception", id |-> Head(buf).id]
    ELSE IF Head(buf).header = "Content-Length: x" THEN [kind |-> "ValueError", id |-> Head(buf).id]
    ELSE [kind |-> "frame", id |-> Head(buf).id]

\* What read_msg leaves in the stream.
\* (variant: the frame read is left in the stream)
ReadRest_Keep(buf) == buf

ReadRest(buf) == IF buf = << >> THEN buf ELSE Tail(buf)

(***************************************************************************)
(* The environment.                                                        *)
(***************************************************************************)
handlerVars == << command, compiler_options, pc, tmpdir, compile_flags, flagsAtSpawn, stdin, wsOut, closeReason,
                  discarded, n_messages_from_ws, n_messages_from_lsp, now, last_log_time,
                  reports, raised, exc, escaped, aexitCalls, killCalls, sigterm, events,
                  preempted, codecVars >>

\* The client sends a text message.
ClientSend ==
    /\ pc # "accept"
    /\ client = "connected"
    /\ nSent < MaxClientMsgs
    /\ nSent' = nSent + 1
    /\ wsInbox' = Append(wsInbox, [kind |-> "text", id |-> nSent + 1])
    /\ UNCHANGED << handlerVars, taskVars, proc, returncode, stdout, nEmitted, client >>

\* The client goes away.
ClientDisconnect ==
    /\ pc # "accept"
    /\ client = "connected"
    /\ client' = "disconnected"
    /\ wsInbox' = Append(wsInbox, [kind |-> "WebSocketDisconnect", id |-> 0])
    /\ UNCHANGED << handlerVars, taskVars, proc, returncode, stdout, nEmitted, nSent >>

\* The backend writes a frame to its stdout.
ProcEmit ==
    /\ proc = "running"
    /\ nEmitted < MaxFrames
    /\ \E h \in Headers :
         stdout' = Append(stdout, [id |-> nEmitted + 1, header |-> h])
    /\ nEmitted' = nEmitted + 1
    /\ UNCHANGED << handlerVars, taskVars, proc, returncode, client, wsInbox, nSent >>

\* The backend exits, of itself or on SIGTERM; its stdout reaches end-of-stream.
ProcExit ==
    /\ proc = "running"
    /\ proc' = "exited"
    /\ UNCHANGED << handlerVars, taskVars, returncode, stdout, nEmitted, client, wsInbox, nSent >>

\* The event loop's child watcher reaps the process and sets returncode.
ChildWatcher ==
    /\ proc = "exited"
    /\ returncode = "None"
    /\ returncode' = "set"
    /\ UNCHANGED << handlerVars, taskVars, proc, stdout, nEmitted, client, wsInbox, nSent >>

(***************************************************************************)
(* The two read tasks of connect_ws, run by the event loop.                *)
(***************************************************************************)
\* The task websocket.receive_text() resolves.
WsReadComplete ==
    /\ ws_read = "pending"
    /\ wsInbox # << >>
    /\ ws_read' = "done"
    /\ ws_result' = Head(wsInbox)
    /\ wsInbox' = Tail(wsInbox)
    /\ UNCHANGED << handlerVars, proc_read, proc_result, wsLive, procLive, done,
                    proc, returncode, stdout, nEmitted, client, nSent >>

\* The task self.read_msg() resolves.
ProcReadComplete ==
    /\ proc_read = "pending"
    /\ ReadReady(stdout, proc)
    /\ proc_read' = "done"
    /\ proc_result' = read_msg(stdout)
    /\ stdout' = ReadRest(stdout)
    /\ UNCHANGED << handlerVars, ws_read, ws_result, wsLive, procLive, done,
                    proc, returncode, nEmitted, client, wsInbox, nSent >>

(***************************************************************************)
(* The endpoint handler: accept, __aenter__, the handshake loop.           *)
(***************************************************************************)
\* `async with`: when the body ends, normally or by exception e, __aexit__ runs.
\* (variant: __aexit__ called after the body by hand, skipped on an exception)
AsyncWithExit_OnlyOnReturn(e) == IF e = "none" THEN "aexit" ELSE "done"

AsyncWithExit(e) == "aexit"

\* await websocket.accept()
Accept ==
    /\ pc = "accept"
    /\ pc' = "aenter"
    /\ UNCHANGED << cfgVars, codecVars, now, fileVars, envVars, taskVars, countVars, tmpdir, stdin, wsOut, closeReason,
                    discarded, raised, exc, escaped, aexitCalls, killCalls, sigterm,
                    events, preempted >>

\* __aenter__ up to its await: with options, the scratch directory is created,
\* the assert on the command passes or ends __aenter__, and compile_flags.txt is
\* written and closed by the `with` block.
AEnter ==
    /\ pc = "aenter"
    /\ IF compiler_options.is_none
         THEN /\ pc' = "spawn"
              /\ UNCHANGED << tmpdir, compile_flags, raised, escaped >>
         ELSE IF SupportsOptions(command)
         THEN /\ tmpdir' = "written"
              /\ compile_flags' = [state |-> "closed", text |-> FlagsText(compiler_options.text)]
              /\ pc' = "spawn"
              /\ UNCHANGED << raised, escaped >>
         ELSE /\ tmpdir' = "empty"
              /\ raised' = "AssertionError"
              /\ escaped' = "AssertionError"
              /\ pc' = "done"
              /\ UNCHANGED compile_flags
    /\ UNCHANGED << cfgVars, codecVars, now, flagsAtSpawn, envVars, taskVars, countVars, stdin, wsOut, closeReason,
                    discarded, exc, aexitCalls, killCalls, sigterm, events, preempted >>

\* create_subprocess_shell returns: the process runs in its own session.
\* The handler goes on to the handshake loop.
Spawn ==
    /\ pc = "spawn"
    /\ proc' = "running"
    /\ flagsAtSpawn' = compile_flags
    /\ pc' = "drain"
    /\ UNCHANGED << cfgVars, codecVars, now, compile_flags, taskVars, countVars, tmpdir, returncode, stdout, nEmitted, client,
                    wsInbox, nSent, stdin, wsOut, closeReason, discarded, raised, exc,
                    escaped, aexitCalls, killCalls, sigterm, events, preempted >>

\* create_subprocess_shell raises: __aenter__ fails, the body and __aexit__ never run.
SpawnFail ==
    /\ pc = "spawn"
    /\ pc' = "done"
    /\ raised' = "OSError"
    /\ escaped' = "OSError"
    /\ UNCHANGED << cfgVars, codecVars, now, fileVars, envVars, taskVars, countVars, tmpdir, stdin, wsOut, closeReason,
                    discarded, exc, aexitCalls, killCalls, sigterm, events, preempted >>

\* One `await lsp.read_msg()` of the handshake loop: the frame is dropped; an
\* exception of read_msg leaves the body.
DrainRead ==
    /\ pc = "drain"
    /\ Len(discarded) < DrainCount(command)
    /\ ReadReady(stdout, proc)
    /\ LET r == read_msg(stdout) IN
         /\ stdout' = ReadRest(stdout)
         /\ IF r.kind = "frame"
              THEN /\ discarded' = Append(discarded, r.id)
                   /\ UNCHANGED << pc, raised, exc >>
              ELSE /\ raised' = r.kind
                   /\ exc' = r.kind
                   /\ pc' = AsyncWithExit(r.kind)
                   /\ UNCHANGED discarded
    /\ UNCHANGED << cfgVars, codecVars, now, fileVars, taskVars, countVars, tmpdir, proc, returncode, nEmitted, client,
                    wsInbox, nSent, stdin, wsOut, closeReason, escaped, aexitCalls,
                    killCalls, sigterm, events, preempted >>

\* connect_ws starts: the two read tasks are created.
ConnectWsStart ==
    /\ pc = "drain"
    /\ Len(discarded) = DrainCount(command)
    /\ ws_read' = "pending"
    /\ proc_read' = "pending"
    /\ wsLive' = wsLive + 1
    /\ procLive' = procLive + 1
    /\ last_log_time' = now
    /\ n_messages_from_ws' = 0
    /\ n_messages_from_lsp' = 0
    /\ pc' = "wait"
    /\ UNCHANGED << cfgVars, codecVars, now, fileVars, envVars, reports, ws_result, proc_result, done, tmpdir, stdin,
                    wsOut, closeReason, discarded, raised, exc, escaped, aexitCalls,
                    killCalls, sigterm, events, preempted >>

(***************************************************************************)
(* connect_ws: the multiplexing loop.                                      *)
(***************************************************************************)
\* The reasons of the two websocket.close calls of connect_ws.
\* (variant: a symbolic reason in place of the message)
InactiveReason_Symbolic == "inactive-timeout"

InactiveReason == "Inactive for 5 minutes, please refresh"
PreemptReason == "Server closed, please refresh"

\* The sides whose read task has resolved: what asyncio.wait returns as `done`.
DoneSet == { s \in {"ws", "proc"} :
               (s = "ws" /\ ws_read = "done") \/ (s = "proc" /\ proc_read = "done") }

\* `if len(done) == 0`: the wait timed out.
\* (variant: `if len(done) < 2`)
IsIdleTimeout_NotBoth(d) == d # {"ws", "proc"}

IsIdleTimeout(d) == d = {}

\* The sides whose read is created anew in a round: those the round consumed.
\* (variant: both reads created anew in every round)
RearmSides_Both(d) == {"ws", "proc"}

RearmSides(d) == d

\* The except clauses of connect_ws: what propagates out of it.
\* (variant: no `except WebSocketDisconnect`)
ConnectWsCatch_NoDisconnect(e) ==
    IF e \in {"LSPExited", "KeyboardInterrupt"} THEN "none" ELSE e

ConnectWsCatch(e) ==
    IF e \in {"WebSocketDisconnect", "LSPExited", "KeyboardInterrupt"} THEN "none" ELSE e

\* Task.cancel(): a pending task is cancelled, a finished one is left as it is.
\* (variant: no `finally`, the tasks are left as they are)
CancelTask_Noop(t) == t

CancelTask(t) == IF t = "pending" THEN "cancelled" ELSE t

LiveAfterCancel(t, n) == IF t \in {"pending", "done"} THEN n - 1 ELSE n

LogInterval == 60

\* `if last_log_time + 60 < time.time()`
\* (variant: `<=`)
LogDue_Inclusive(last, t) == last + LogInterval <= t

LogDue(last, t) == last + LogInterval < t

\* The end of a round: when the report is due the counters are printed and
\* reset and last_log_time is set.
LogStep(due, nws, nlsp) ==
    /\ n_messages_from_ws' = (IF due THEN 0 ELSE nws)
    /\ n_messages_from_lsp' = (IF due THEN 0 ELSE nlsp)
    /\ reports' = (IF due THEN Append(reports, [ws |-> nws, lsp |-> nlsp, at |-> now])
                   ELSE reports)
    /\ last_log_time' = (IF due THEN now ELSE last_log_time)

\* The loop is left: by `break` (e = "none") after the idle close with `reason`,
\* or by exception e; the except clauses, then `finally`. wsr, wl, prr, pl are
\* the two tasks and their counts at that point.
LeaveConnectWs(e, reason, wsr, wl, prr, pl) ==
    /\ raised' = e
    /\ closeReason' = (IF reason # "none" THEN reason
                       ELSE IF e = "KeyboardInterrupt" THEN PreemptReason
                       ELSE closeReason)
    /\ exc' = ConnectWsCatch(e)
    /\ ws_read' = CancelTask(wsr)
    /\ proc_read' = CancelTask(prr)
    /\ wsLive' = LiveAfterCancel(wsr, wl)
    /\ procLive' = LiveAfterCancel(prr, pl)
    /\ events' = events \o (IF reason # "none" \/ e = "KeyboardInterrupt"
                              THEN << "close" >> ELSE << >>)
                        \o << "cancel_reads" >>
    /\ pc' = AsyncWithExit(ConnectWsCatch(e))

\* asyncio.wait returns: with the resolved tasks, or empty-handed after 5 minutes.
WaitReturn ==
    /\ pc = "wait"
    /\ IF IsIdleTimeout(DoneSet)
         THEN /\ LeaveConnectWs("none", InactiveReason, ws_read, wsLive, proc_read, procLive)
              /\ UNCHANGED << done, ws_result, proc_result >>
         ELSE /\ done' = DoneSet
              /\ pc' = "ws_branch"
              /\ UNCHANGED << ws_read, ws_result, proc_read, proc_result, wsLive, procLive,
                              raised, exc, closeReason, events >>
    /\ UNCHANGED << cfgVars, codecVars, now, fileVars, envVars, countVars, tmpdir, stdin, wsOut, discarded, escaped,
                    aexitCalls, killCalls, sigterm, preempted >>

\* `if ws_read in done`: the result is taken; a text is written to stdin as one frame.
WsBranch ==
    /\ pc = "ws_branch"
    /\ IF "ws" \in done
         THEN IF ws_result.kind = "text"
                THEN /\ stdin' = Append(stdin, ws_result.id)
                     /\ ws_read' = "consumed"
                     /\ wsLive' = wsLive - 1
                     /\ pc' = "send_msg"
                     /\ UNCHANGED << proc_read, procLive, raised, exc, closeReason, events >>
                ELSE /\ LeaveConnectWs(ws_result.kind, "none", "consumed", wsLive - 1,
                                       proc_read, procLive)
                     /\ UNCHANGED stdin
         ELSE /\ ws_read' = (IF "ws" \in RearmSides(done) THEN "pending" ELSE ws_read)
              /\ wsLive' = (IF "ws" \in RearmSides(done) THEN wsLive + 1 ELSE wsLive)
              /\ pc' = "proc_branch"
              /\ UNCHANGED << stdin, proc_read, procLive, raised, exc, closeReason, events >>
    /\ UNCHANGED << cfgVars, codecVars, now, fileVars, envVars, countVars, ws_result, proc_result, done, tmpdir, wsOut,
                    discarded, escaped, aexitCalls, killCalls, sigterm, preempted >>

\* `await self._proc.stdin.drain()` returns, or raises when the pipe's reader is gone.
SendMsgDone ==
    /\ pc = "send_msg"
    /\ \/ /\ n_messages_from_ws' = n_messages_from_ws + 1
          /\ ws_read' = (IF "ws" \in RearmSides(done) THEN "pending" ELSE ws_read)
          /\ wsLive' = (IF "ws" \in RearmSides(done) THEN wsLive + 1 ELSE wsLive)
          /\ ws_result' = NoResult
          /\ pc' = "proc_branch"
          /\ UNCHANGED << proc_read, procLive, raised, exc, closeReason, events >>
       \/ /\ proc # "running"
          /\ LeaveConnectWs("ConnectionResetError", "none", ws_read, wsLive, proc_read, procLive)
          /\ UNCHANGED << n_messages_from_ws, ws_result >>
    /\ UNCHANGED << cfgVars, codecVars, now, fileVars, envVars, n_messages_from_lsp, last_log_time, reports,
                    proc_result, done, tmpdir, stdin,
                    wsOut, discarded, escaped, aexitCalls, killCalls, sigterm, preempted >>

\* `if proc_read in done`: the result is taken; then the minute's report.
ProcBranch ==
    /\ pc = "proc_branch"
    /\ IF "proc" \in done
         THEN IF proc_result.kind = "frame"
                THEN /\ proc_read' = "consumed"
                     /\ procLive' = procLive - 1
                     /\ pc' = "send_text"
                     /\ UNCHANGED << ws_read, wsLive, raised, exc, closeReason, events,
                                     countVars >>
                ELSE /\ LeaveConnectWs(proc_result.kind, "none", ws_read, wsLive,
                                       "consumed", procLive - 1)
                     /\ UNCHANGED countVars
         ELSE /\ proc_read' = (IF "proc" \in RearmSides(done) THEN "pending" ELSE proc_read)
              /\ procLive' = (IF "proc" \in RearmSides(done) THEN procLive + 1 ELSE procLive)
              /\ LogStep(LogDue(last_log_time, now), n_messages_from_ws, n_messages_from_lsp)
              /\ pc' = "wait"
              /\ UNCHANGED << ws_read, wsLive, raised, exc, closeReason, events >>
    /\ UNCHANGED << cfgVars, codecVars, now, fileVars, envVars, ws_result, proc_result, done, tmpdir, stdin, wsOut,
                    discarded, escaped, aexitCalls, killCalls, sigterm, preempted >>

\* What websocket.send_text raises once the client is gone.
SendTextErrors == { "WebSocketDisconnect", "RuntimeError" }

\* `await websocket.send_text(output)` returns, or raises once the client is gone;
\* then the minute's report.
SendTextDone ==
    /\ pc = "send_text"
    /\ \/ /\ wsOut' = Append(wsOut, proc_result.id)
          /\ proc_read' = (IF "proc" \in RearmSides(done) THEN "pending" ELSE proc_read)
          /\ procLive' = (IF "proc" \in RearmSides(done) THEN procLive + 1 ELSE procLive)
          /\ proc_result' = NoResult
          /\ LogStep(LogDue(last_log_time, now), n_messages_from_ws,
                     n_messages_from_lsp + 1)
          /\ pc' = "wait"
          /\ UNCHANGED << ws_read, wsLive, raised, exc, closeReason, events >>
       \/ /\ client = "disconnected"
          /\ \E e \in SendTextErrors :
                LeaveConnectWs(e, "none", ws_read, wsLive, proc_read, procLive)
          /\ UNCHANGED << wsOut, proc_result, countVars >>
    /\ UNCHANGED << cfgVars, codecVars, now, fileVars, envVars, ws_result, done, tmpdir, stdin, discarded, escaped,
                    aexitCalls, killCalls, sigterm, preempted >>

\* The host preempts the container: KeyboardInterrupt is raised in the handler
\* at the await it is suspended at, while it spawns, drains or bridges.
Preempt ==
    /\ ~preempted
    /\ pc \in {"spawn", "drain", "wait", "send_msg", "send_text"}
    /\ pc = "drain" => Len(discarded) < DrainCount(command)
    /\ preempted' = TRUE
    /\ IF pc = "spawn"
         THEN /\ pc' = "done"
              /\ raised' = "KeyboardInterrupt"
              /\ escaped' = "KeyboardInterrupt"
              /\ UNCHANGED << exc, closeReason, events, ws_read, proc_read, wsLive, procLive >>
         ELSE IF pc = "drain"
         THEN /\ pc' = AsyncWithExit("KeyboardInterrupt")
              /\ raised' = "KeyboardInterrupt"
              /\ exc' = "KeyboardInterrupt"
              /\ UNCHANGED << escaped, closeReason, events, ws_read, proc_read, wsLive,
                              procLive >>
         ELSE /\ LeaveConnectWs("KeyboardInterrupt", "none", ws_read, wsLive, proc_read,
                                procLive)
              /\ UNCHANGED escaped
    /\ UNCHANGED << cfgVars, codecVars, now, fileVars, envVars, countVars, ws_result, proc_result, done, tmpdir, stdin,
                    wsOut, discarded, aexitCalls, killCalls, sigterm >>

(***************************************************************************)
(* __aexit__: the shutdown routine.                                        *)
(***************************************************************************)
\* `if self._proc.returncode is None`
\* (variants: the check dropped; the signal dropped)
ShouldKill_Always(rc) == TRUE

ShouldKill_Never(rc) == FALSE

ShouldKill(rc) == rc = "None"

\* os.killpg(os.getpgid(pid), SIGTERM): the whole process group of the session
\* the process was started in.
\* (variant: self._proc.terminate(), the shell alone)
KillTarget_ProcessOnly == "process"

KillTarget == "group"

\* `except ProcessLookupError: pass`
\* (variant: the error not caught)
OnProcessLookupError_Raise == "raise"

OnProcessLookupError == "pass"

\* __aexit__ up to its await: the scratch directory is removed, then a process
\* not known to have exited gets SIGTERM on its process group. The group is
\* gone (ProcessLookupError) when the process died and was reaped unnoticed.
AExit ==
    /\ pc = "aexit"
    /\ aexitCalls' = aexitCalls + 1
    /\ tmpdir' = (IF tmpdir = "None" THEN "None" ELSE "removed")
    /\ compile_flags' = (IF tmpdir = "None" THEN compile_flags ELSE NoFile)
    /\ LET cleaned == IF tmpdir = "written" THEN << "rm_scratch" >> ELSE << >> IN
         IF ShouldKill(returncode)
           THEN /\ killCalls' = killCalls + 1
                /\ \/ /\ proc = "running"
                      /\ sigterm' = KillTarget
                      /\ events' = events \o cleaned \o << "sigterm" >>
                      /\ pc' = "aexit_wait"
                      /\ UNCHANGED escaped
                   \/ /\ proc # "running"
                      /\ events' = events \o cleaned
                      /\ UNCHANGED sigterm
                      /\ \/ pc' = "aexit_wait" /\ UNCHANGED escaped
                         \/ IF OnProcessLookupError = "pass"
                              THEN pc' = "aexit_wait" /\ UNCHANGED escaped
                              ELSE pc' = "done" /\ escaped' = "ProcessLookupError"
           ELSE /\ events' = events \o cleaned
                /\ pc' = "done"
                /\ escaped' = exc
                /\ UNCHANGED << killCalls, sigterm >>
    /\ UNCHANGED << cfgVars, codecVars, now, flagsAtSpawn, envVars, taskVars, countVars, stdin, wsOut,
                    closeReason, discarded, raised, exc, preempted >>

\* `await self._proc.wait()` returns; the exception of the body, if any, goes on.
AExitWait ==
    /\ pc = "aexit_wait"
    /\ returncode = "set"
    /\ events' = Append(events, "reaped")
    /\ pc' = "done"
    /\ escaped' = exc
    /\ UNCHANGED << cfgVars, codecVars, now, fileVars, envVars, taskVars, countVars, tmpdir, stdin, wsOut, closeReason,
                    discarded, raised, exc, aexitCalls, killCalls, sigterm, preempted >>

Environment ==
    \/ ClientSend
    \/ ClientDisconnect
    \/ ProcEmit
    \/ ProcExit
    \/ ChildWatcher

Next ==
    \/ Environment
    \/ WsReadComplete
    \/ ProcReadComplete
    \/ Accept
    \/ AEnter
    \/ Spawn
    \/ SpawnFail
    \/ DrainRead
    \/ ConnectWsStart
    \/ WaitReturn
    \/ WsBranch
    \/ SendMsgDone
    \/ ProcBranch
    \/ SendTextDone
    \/ Preempt
    \/ AExit
    \/ AExitWait

\* One connection of either route. The wall clock is not advanced here, so no
\* report falls due; SpecClock below lets it run.
Spec == Init /\ [][Next]_vars

(***************************************************************************)
(* The connection.                                                         *)
(***************************************************************************)
Bridging == pc \in {"wait", "ws_branch", "send_msg", "proc_branch", "send_text"}

\* C1: single-pending invariant. Each side never has two reads outstanding, and
\* whenever the loop sits in asyncio.wait it has exactly one per side: the task
\* the loop holds, pending or resolved and not yet consumed.
C1_SinglePending ==
    /\ wsLive <= 1
    /\ procLive <= 1
    /\ pc = "wait" =>
         /\ wsLive = 1
         /\ procLive = 1
         /\ ws_read \in {"pending", "done"}
         /\ proc_read \in {"pending", "done"}

\* The loop waits again after it has forwarded in both directions.
C1_Witness ==
    /\ pc = "wait"
    /\ stdin # << >>
    /\ wsOut # << >>
    /\ ws_read = "pending"
    /\ proc_read = "done"

\* C2: once a process was spawned, __aexit__ has run exactly once when the
\* handler finishes, whatever ended the body; it never runs twice, and never
\* without a process.
C2_ShutdownExactlyOnce ==
    /\ aexitCalls <= 1
    /\ (proc = "none" => aexitCalls = 0)
    /\ (pc = "done" /\ proc # "none" => aexitCalls = 1)

\* The handler finished after an exception of the bridge loop went through __aexit__.
C2_Witness ==
    /\ pc = "done"
    /\ escaped = "ValueError"
    /\ ws_read = "cancelled"
    /\ aexitCalls = 1

\* C10: handshake drain. With K = 2 for pyright and 0 for clangd, the frames the
\* handshake loop drops are the first ones the process wrote, at most K of them;
\* the i-th message sent to the client is frame K+i; and nothing is written to
\* stdin, and the bridge is not entered, before K frames were dropped.
C10_HandshakeDrain ==
    LET K == IF command = PYTHON_LANGSERVER THEN 2 ELSE 0 IN
    /\ Len(discarded) <= K
    /\ \A i \in DOMAIN discarded : discarded[i] = i
    /\ \A i \in DOMAIN wsOut : wsOut[i] = K + i
    /\ (stdin # << >> \/ wsOut # << >> \/ Bridging) => Len(discarded) = K

\* pyright: two frames dropped, the third forwarded, a client message written.
C10_Witness ==
    /\ command = PYTHON_LANGSERVER
    /\ discarded = << 1, 2 >>
    /\ wsOut = << 3 >>
    /\ stdin # << >>

\* Position of the first occurrence of release step e in events, 0 if absent.
EventAt(e) ==
    IF \E i \in DOMAIN events : events[i] = e
      THEN CHOOSE i \in DOMAIN events :
             events[i] = e /\ \A j \in DOMAIN events : events[j] = e => i <= j
      ELSE 0

\* C3: release order of a connection that owns a scratch configuration: reads
\* cancelled, process group signalled, process reaped, and only then the scratch
\* directory removed; the directory is never gone while the process still runs.
C3_ScratchRemovedAfterReap ==
    /\ tmpdir = "removed" => proc # "running" /\ returncode = "set"
    /\ EventAt("rm_scratch") # 0 =>
         /\ EventAt("cancel_reads") < EventAt("rm_scratch")
         /\ EventAt("sigterm") < EventAt("rm_scratch")
         /\ EventAt("reaped") # 0
         /\ EventAt("reaped") < EventAt("rm_scratch")

\* C4: idle timeout. The bridge issues the idle close only in a round in which
\* neither read had resolved (both are then cancelled, still pending); once it
\* has, the loop is over, nothing more is written to stdin or sent to the
\* client, and the handler finishes only after __aexit__ ran and the process
\* was reaped, without an exception.
C4_IdleTimeout ==
    /\ [](closeReason = InactiveReason =>
            /\ ws_read = "cancelled"
            /\ proc_read = "cancelled"
            /\ raised = "none"
            /\ pc \in {"aexit", "aexit_wait", "done"}
            /\ events[1] = "close"
            /\ events[2] = "cancel_reads"
            /\ (pc = "done" =>
                  aexitCalls = 1 /\ returncode = "set" /\ escaped = "none"))
    /\ [][closeReason = InactiveReason => stdin' = stdin /\ wsOut' = wsOut]_vars
    /\ [][closeReason' = InactiveReason /\ closeReason # InactiveReason =>
            pc = "wait" /\ DoneSet = {}]_vars

\* An idle close after traffic in both directions, followed by SIGTERM and the reaping.
C4_Witness ==
    /\ pc = "done"
    /\ closeReason = InactiveReason
    /\ stdin # << >>
    /\ wsOut # << >>
    /\ sigterm = "group"

\* C5: disconnect propagation. When the bridge loop ended on WebSocketDisconnect,
\* a process still running when __aexit__ looked at it has got SIGTERM on its
\* whole process group; the handler finishes only after __aexit__ ran once and
\* the process was reaped, and no exception leaves the handler.
C5_DisconnectPropagation ==
    raised = "WebSocketDisconnect" =>
      /\ pc \in {"aexit", "aexit_wait", "done"}
      /\ exc = "none"
      /\ (pc \in {"aexit_wait", "done"} => sigterm = "group" \/ proc = "exited")
      /\ (pc = "aexit_wait" => killCalls = 1)
      /\ (pc = "done" => aexitCalls = 1 /\ returncode = "set" /\ escaped = "none")

\* The client left while the backend ran; the group was signalled and reaped.
C5_Witness ==
    /\ pc = "done"
    /\ raised = "WebSocketDisconnect"
    /\ sigterm = "group"
    /\ EventAt("sigterm") < EventAt("reaped")

\* C6: process exit is normal termination. Whenever a read of the backend's
\* stdout met end-of-stream, in the handshake loop or in the bridge, the handler
\* finishes without an exception and after __aexit__ ran.
C6_ProcessExitIsNormal ==
    pc = "done" /\ (raised = "LSPExited" \/ proc_result.kind = "LSPExited") =>
      escaped = "none" /\ aexitCalls = 1

\* C7: a malformed frame header is contained. After read_msg rejected a header,
\* the handler finishes without an exception, after __aexit__ ran, and no
\* further read of the backend was made.
C7_MalformedHeaderContained ==
    pc = "done" /\ raised \in {"Exception", "ValueError"} =>
      escaped = "none" /\ aexitCalls = 1 /\ proc_read \in {"none", "consumed"}

\* C8: preemption is a graceful close. After KeyboardInterrupt reached the
\* handler while it spawned, drained or bridged, the handler finishes with the
\* client channel closed with a reason, the reads cancelled, __aexit__ run for a
\* spawned process, and no exception.
C8_PreemptionGraceful ==
    pc = "done" /\ preempted =>
      /\ closeReason # "none"
      /\ escaped = "none"
      /\ (proc # "none" => aexitCalls = 1)

\* C12: faithful in-order forwarding. What send_msg has written to stdin is, in
\* order and one frame each, a prefix of the texts the client sent; what was sent
\* to the client is, in order and verbatim, a prefix of the frames the process
\* wrote after the K frames of the handshake: nothing twice, swapped or skipped.
C12_InOrderForwarding ==
    LET K == IF command = PYTHON_LANGSERVER THEN 2 ELSE 0 IN
    /\ Len(stdin) <= nSent
    /\ \A i \in DOMAIN stdin : stdin[i] = i
    /\ Len(wsOut) + Len(discarded) <= nEmitted
    /\ \A i \in DOMAIN wsOut : wsOut[i] = K + i /\ wsOut[i] <= nEmitted

\* Two client texts and two frames forwarded, the loop waiting again.
C12_Witness ==
    /\ pc = "wait"
    /\ stdin = << 1, 2 >>
    /\ Len(wsOut) >= 2

C15_ReadsCancelled ==
    (pc \in {"aexit", "aexit_wait", "done"} /\ ws_read # "none") =>
      /\ ws_read \in {"consumed", "done", "cancelled"}
      /\ proc_read \in {"consumed", "done", "cancelled"}
      /\ wsLive = 0
      /\ procLive = 0

\* connect_ws was left by an exception of send_msg, the process-side read pending.
C15_Witness ==
    /\ pc = "done"
    /\ escaped = "ConnectionResetError"
    /\ proc_read = "cancelled"

\* C16: shutdown always completes. While __aexit__ waits for the process it has
\* signalled, it can go on without the backend's help: its wait can end although
\* the process still runs.
C16_ShutdownCompletes ==
    pc = "aexit_wait" => ENABLED AExitWait \/ ENABLED ChildWatcher

\* C17: the scratch configuration never outlives its connection. Once a handler
\* that was given compiler_options has finished, on whatever path, the scratch
\* directory does not exist.
C17_ScratchNeverOutlives ==
    (pc = "done" /\ ~compiler_options.is_none) => tmpdir \in {"None", "removed"}

\* The steps that do not depend on the client or on what the backend chooses to
\* do: the handler's, the read tasks', the child watcher's, and the exit of a
\* process that was sent SIGTERM.
TeardownStep ==
    \/ WsReadComplete
    \/ ProcReadComplete
    \/ Accept \/ AEnter \/ Spawn \/ DrainRead \/ ConnectWsStart
    \/ WaitReturn \/ WsBranch \/ SendMsgDone \/ ProcBranch \/ SendTextDone
    \/ AExit \/ AExitWait
    \/ ChildWatcher
    \/ (sigterm # "none" /\ ProcExit)

\* C20: liveness of teardown. Once the client has disconnected, the connection
\* goes on to Closed from every state: as long as the handler has not finished,
\* a step towards it is possible, also in the handshake loop while the backend
\* has written fewer than K frames and keeps its stdout open.
C20_TeardownProgress ==
    (client = "disconnected" /\ pc # "done") => ENABLED TeardownStep

(***************************************************************************)
(* LanguageServerProcess with any command and any options string, from     *)
(* construction to the start of the bridge loop and through shutdown.      *)
(***************************************************************************)
MaxOptLen == 3

OptionChars == { "a", "b", " ", "\n" }

OptionTexts == UNION { [1..k -> OptionChars] : k \in 0..MaxOptLen }

InitClass ==
    /\ command \in { PYTHON_LANGSERVER, CLANGD_LANGSERVER }
    /\ compiler_options \in { OptNone } \cup { OptStr(t) : t \in OptionTexts }
    /\ Fresh
    /\ CodecIdle

NextClass ==
    \/ Accept
    \/ AEnter
    \/ Spawn
    \/ SpawnFail
    \/ DrainRead
    \/ ConnectWsStart
    \/ Preempt
    \/ AExit
    \/ AExitWait
    \/ ProcEmit
    \/ ProcExit
    \/ ChildWatcher

SpecClass == InitClass /\ [][NextClass]_vars

\* The characters of t that are not in set S, in order.
Without(t, S) == SelectSeq(t, LAMBDA c : c \notin S)

\* The number of maximal runs of non-whitespace characters in t.
RunCount(t) ==
    Cardinality({ i \in DOMAIN t :
                    t[i] \notin Whitespace /\ (i = 1 \/ t[i - 1] \in Whitespace) })

\* The file text f holds the options of string t one per line: no blank in it,
\* no empty line, as many lines as t has options, and the same characters.
OnePerLine(f, t) ==
    /\ \A i \in DOMAIN f : f[i] # " "
    /\ f # << >> => f[1] # "\n" /\ f[Len(f)] # "\n"
    /\ \A i \in 1..(Len(f) - 1) : ~(f[i] = "\n" /\ f[i + 1] = "\n")
    /\ Without(f, {"\n"}) = Without(t, Whitespace)
    /\ Len(f) - Len(Without(f, {"\n"})) = (IF RunCount(t) = 0 THEN 0 ELSE RunCount(t) - 1)

\* C18: config before spawn. With compiler_options given, a process exists only
\* for clangd, and it was launched with compile_flags.txt written in full, one
\* whitespace-separated option per line, and closed; for any other command
\* __aenter__ ends in AssertionError, no process is launched and the bridge loop
\* is never entered.
C18_ConfigBeforeSpawn ==
    ~compiler_options.is_none =>
      /\ proc # "none" =>
           /\ command = CLANGD_LANGSERVER
           /\ flagsAtSpawn.state = "closed"
           /\ OnePerLine(flagsAtSpawn.text, compiler_options.text)
      /\ command # CLANGD_LANGSERVER =>
           /\ proc = "none"
           /\ pc \in {"accept", "aenter", "done"}
           /\ ws_read = "none" /\ proc_read = "none"
           /\ (pc = "done" => escaped = "AssertionError" /\ aexitCalls = 0)

\* clangd launched on two options: the blank between them became a line break.
C18_Witness ==
    /\ command = CLANGD_LANGSERVER
    /\ compiler_options = OptStr(<< "a", " ", "b" >>)
    /\ proc = "running"
    /\ pc = "wait"
    /\ flagsAtSpawn.text = << "a", "\n", "b" >>

(***************************************************************************)
(* The bridge loop with the wall clock advancing.                          *)
(***************************************************************************)
MaxTicks == 3

\* Seconds by which the clock advances in one step.
TickLen == 30

\* Time passes while the loop runs.
Tick ==
    /\ Bridging
    /\ now < MaxTicks * TickLen
    /\ now' = now + TickLen
    /\ UNCHANGED << cfgVars, codecVars, fileVars, envVars, taskVars, countVars, pc, tmpdir,
                    stdin, wsOut, closeReason, discarded, raised, exc, escaped, aexitCalls, killCalls,
                    sigterm, events, preempted >>

InitClock ==
    /\ command \in { PYTHON_LANGSERVER, CLANGD_LANGSERVER }
    /\ compiler_options = OptNone
    /\ Fresh
    /\ CodecIdle

\* The connection while the client stays and the host does not preempt: the
\* loop ends by the idle timeout, the backend's exit, a bad header or a failed send.
NextClock ==
    \/ Tick
    \/ ClientSend
    \/ ProcEmit
    \/ ProcExit
    \/ ChildWatcher
    \/ WsReadComplete
    \/ ProcReadComplete
    \/ Accept
    \/ AEnter
    \/ Spawn
    \/ DrainRead
    \/ ConnectWsStart
    \/ WaitReturn
    \/ WsBranch
    \/ SendMsgDone
    \/ ProcBranch
    \/ SendTextDone
    \/ AExit
    \/ AExitWait

SpecClock == InitClock /\ [][NextClock]_vars

RECURSIVE SumWs(_)
SumWs(rs) == IF rs = << >> THEN 0 ELSE Head(rs).ws + SumWs(Tail(rs))

RECURSIVE SumLsp(_)
SumLsp(rs) == IF rs = << >> THEN 0 ELSE Head(rs).lsp + SumLsp(Tail(rs))

\* C19: counter conservation. Whenever the loop is about to wait, in each
\* direction the counts of all reports so far plus the current counter equal
\* the messages forwarded since bridging began; a report is printed only when
\* more than 60 seconds have passed since the previous one (or since bridging
\* began); and right after a report both counters are zero.
C19_CounterConservation ==
    /\ [](pc = "wait" =>
            /\ SumWs(reports) + n_messages_from_ws = Len(stdin)
            /\ SumLsp(reports) + n_messages_from_lsp = Len(wsOut))
    /\ [](\A i \in DOMAIN reports :
            reports[i].at > (IF i = 1 THEN 0 ELSE reports[i - 1].at) + 60)
    /\ [][reports' # reports =>
            /\ now > last_log_time + 60
            /\ last_log_time' = now
            /\ n_messages_from_ws' = 0
            /\ n_messages_from_lsp' = 0]_vars

\* A report with messages of both directions in it, and one forwarded since.
C19_Witness ==
    /\ pc = "wait"
    /\ Len(reports) = 1
    /\ reports[1].ws > 0
    /\ reports[1].lsp > 0
    /\ n_messages_from_ws + n_messages_from_lsp > 0

(***************************************************************************)
(* The framing codec on bytes: send_msg writes a frame to a pipe, read_msg  *)
(* reads one from it. A str is the sequence of its code points, a bytes    *)
(* object the sequence of its bytes.                                       *)
(***************************************************************************)
CR == 13
LF == 10

\* b"Content-Length: "
ContentLengthPrefix ==
    << 67, 111, 110, 116, 101, 110, 116, 45, 76, 101, 110, 103, 116, 104, 58, 32 >>

\* b"ContentLength: "
WrongPrefix ==
    << 67, 111, 110, 116, 101, 110, 116, 76, 101, 110, 103, 116, 104, 58, 32 >>

\* bytes(c, "utf-8") of one code point.
Utf8(cp) ==
    IF cp < 128 THEN << cp >>
    ELSE IF cp < 2048 THEN << 192 + (cp \div 64), 128 + (cp % 64) >>
    ELSE IF cp < 65536
      THEN << 224 + (cp \div 4096), 128 + ((cp \div 64) % 64), 128 + (cp % 64) >>
    ELSE << 240 + (cp \div 262144), 128 + ((cp \div 4096) % 64),
            128 + ((cp \div 64) % 64), 128 + (cp % 64) >>

\* bytes(msg, "utf-8")
RECURSIVE Encode(_)
Encode(text) == IF text = << >> THEN << >> ELSE Utf8(Head(text)) \o Encode(Tail(text))

\* The decimal digits of n, as in f"{n}".
RECURSIVE Decimal(_)
Decimal(n) == IF n < 10 THEN << 48 + n >> ELSE Decimal(n \div 10) \o << 48 + (n % 10) >>

\* `len(data)`: the length send_msg declares.
\* (variant: `len(msg)`, the number of characters)
DeclaredLength_Chars(text, data) == Len(text)

DeclaredLength(text, data) == Len(data)

\* The bytes send_msg writes for msg: header, blank line, body.
SendMsgBytes(text) ==
    LET data == Encode(text) IN
    ContentLengthPrefix \o Decimal(DeclaredLength(text, data)) \o << CR, LF, CR, LF >> \o data

IsCont(b) == b >= 128 /\ b < 192

\* bytes.decode("utf-8"): the code points, or failure on a byte that starts
\* no sequence or a sequence cut short. acc holds what was decoded so far.
RECURSIVE Utf8Decode(_, _)
Utf8Decode(bs, acc) ==
    IF bs = << >> THEN [ok |-> TRUE, text |-> acc]
    ELSE LET b == Head(bs)
             n == Len(bs) IN
      IF b < 128 THEN Utf8Decode(Tail(bs), Append(acc, b))
      ELSE IF b >= 192 /\ b < 224 /\ n >= 2 /\ IsCont(bs[2])
        THEN Utf8Decode(SubSeq(bs, 3, n), Append(acc, (b - 192) * 64 + (bs[2] - 128)))
      ELSE IF b >= 224 /\ b < 240 /\ n >= 3 /\ IsCont(bs[2]) /\ IsCont(bs[3])
        THEN Utf8Decode(SubSeq(bs, 4, n),
                        Append(acc, (b - 224) * 4096 + (bs[2] - 128) * 64 + (bs[3] - 128)))
      ELSE IF b >= 240 /\ b < 248 /\ n >= 4 /\ IsCont(bs[2]) /\ IsCont(bs[3]) /\ IsCont(bs[4])
        THEN Utf8Decode(SubSeq(bs, 5, n),
                        Append(acc, (b - 240) * 262144 + (bs[2] - 128) * 4096
                                    + (bs[3] - 128) * 64 + (bs[4] - 128)))
      ELSE [ok |-> FALSE, text |-> << >>]

\* The characters str.strip() and int() take as whitespace, among ASCII.
AsciiSpace == { 9, 10, 11, 12, 13, 32 }

RECURSIVE StripLeft(_)
StripLeft(cs) ==
    IF cs # << >> /\ Head(cs) \in AsciiSpace THEN StripLeft(Tail(cs)) ELSE cs

RECURSIVE StripRight(_)
StripRight(cs) ==
    IF cs # << >> /\ cs[Len(cs)] \in AsciiSpace
      THEN StripRight(SubSeq(cs, 1, Len(cs) - 1)) ELSE cs

IsDigit(c) == c >= 48 /\ c <= 57

\* The value of the digits of cs, underscores skipped.
RECURSIVE DigitsValue(_, _)
DigitsValue(cs, acc) ==
    IF cs = << >> THEN acc
    ELSE IF IsDigit(Head(cs)) THEN DigitsValue(Tail(cs), acc * 10 + (Head(cs) - 48))
    ELSE DigitsValue(Tail(cs), acc)

\* int(s) for a str s: blanks around are dropped, a sign may lead, then come
\* digits, with single underscores allowed between two digits; anything else is
\* a ValueError.
ParseInt(cs) ==
    LET t == StripRight(StripLeft(cs))
        signed == t # << >> /\ t[1] \in {43, 45}
        d == IF signed THEN Tail(t) ELSE t
        wellFormed ==
            /\ d # << >>
            /\ \A i \in DOMAIN d : IsDigit(d[i]) \/ d[i] = 95
            /\ IsDigit(d[1]) /\ IsDigit(d[Len(d)])
            /\ \A i \in 1..(Len(d) - 1) : ~(d[i] = 95 /\ d[i + 1] = 95)
    IN IF ~wellFormed THEN [ok |-> FALSE, value |-> 0]
       ELSE [ok |-> TRUE,
             value |-> IF signed /\ t[1] = 45 THEN 0 - DigitsValue(d, 0) ELSE DigitsValue(d, 0)]

\* Index of the first line feed of bs, 0 if it has none.
LineEnd(bs) ==
    IF \E i \in DOMAIN bs : bs[i] = LF
      THEN CHOOSE i \in DOMAIN bs : bs[i] = LF /\ \A j \in 1..(i - 1) : bs[j] # LF
      ELSE 0

StartsWith(bs, pre) == Len(bs) >= Len(pre) /\ SubSeq(bs, 1, Len(pre)) = pre

Raised(k) == [kind |-> k, body |-> << >>, declared |-> 0, rest |-> << >>]

\* read_msg on a stream holding bs, its writing end closed or not: the frame
\* and what is left, or the exception raised, or "blocked" while a read waits
\* for bytes that have not come.
ReadMsgBytes(bs, eof) ==
    LET nl == LineEnd(bs)
        line == IF nl > 0 THEN SubSeq(bs, 1, nl) ELSE bs
        after == IF nl > 0 THEN SubSeq(bs, nl + 1, Len(bs)) ELSE << >>
    IN
    IF nl = 0 /\ ~eof THEN Raised("blocked")
    ELSE IF line = << >> THEN Raised("LSPExited")
    ELSE IF \E i \in DOMAIN line : line[i] >= 128 THEN Raised("UnicodeDecodeError")
    ELSE IF ~StartsWith(line, ContentLengthPrefix) THEN Raised("Exception")
    ELSE LET p == ParseInt(SubSeq(line, Len(ContentLengthPrefix) + 1, Len(line))) IN
      IF ~p.ok THEN Raised("ValueError")
      ELSE IF Len(after) < 2
        THEN (IF eof THEN Raised("IncompleteReadError") ELSE Raised("blocked"))
      ELSE IF p.value < 0 THEN Raised("ValueError")
      ELSE IF Len(after) - 2 < p.value
        THEN (IF eof THEN Raised("IncompleteReadError") ELSE Raised("blocked"))
      ELSE LET d == Utf8Decode(SubSeq(after, 3, 2 + p.value), << >>) IN
        IF ~d.ok THEN Raised("UnicodeDecodeError")
        ELSE [kind |-> "frame", body |-> d.text, declared |-> p.value,
              rest |-> SubSeq(after, 3 + p.value, Len(after))]

MaxBodyLen == 3
MaxRemLen == 3

\* Code points of the bodies sent: a line feed, U+00E9 (two bytes in UTF-8),
\* U+1F600 (four bytes).
BodyChars == { 10, 233, 128512 }

Bodies == UNION { [1..k -> BodyChars] : k \in 0..MaxBodyLen }

\* What a backend may put after "Content-Length: ": the characters 0 1 x - _
RemChars == { 48, 49, 120, 45, 95 }

Remainders == UNION { [1..k -> RemChars] : k \in 0..MaxRemLen }

\* What follows the header's remainder: nothing, or the line end and the blank
\* line, alone or with a one-byte body.
StreamTails == { << >>, << CR, LF, CR, LF >>, << CR, LF, CR, LF, 97 >> }

\* The byte streams a backend writes: none, or one header line with what follows.
RawStreams ==
    { << >> } \cup
    { pre \o rem \o tl : pre \in { ContentLengthPrefix, WrongPrefix },
                         rem \in Remainders, tl \in StreamTails }

\* A pipe about to be written by send_msg, or already written by a backend;
\* the connection itself has not begun.
InitCodec ==
    /\ command = PYTHON_LANGSERVER
    /\ compiler_options = OptNone
    /\ Fresh
    /\ pipe_eof = FALSE
    /\ read_result = NoRead
    /\ \/ /\ writer = "send_msg"
          /\ msg \in Bodies
          /\ pipe = << >>
          /\ codec_pc = "send"
       \/ /\ writer = "backend"
          /\ msg = << >>
          /\ pipe \in RawStreams
          /\ codec_pc = "read"

\* send_msg(msg)
CodecSend ==
    /\ codec_pc = "send"
    /\ pipe' = SendMsgBytes(msg)
    /\ codec_pc' = "read"
    /\ UNCHANGED << connVars, writer, msg, pipe_eof, read_result >>

\* The writing end is closed: the reader meets end-of-stream after the bytes.
CodecClose ==
    /\ codec_pc = "read"
    /\ ~pipe_eof
    /\ pipe_eof' = TRUE
    /\ UNCHANGED << connVars, writer, msg, pipe, codec_pc, read_result >>

\* read_msg() returns or raises.
CodecRead ==
    /\ codec_pc = "read"
    /\ ReadMsgBytes(pipe, pipe_eof).kind # "blocked"
    /\ read_result' = ReadMsgBytes(pipe, pipe_eof)
    /\ codec_pc' = "done"
    /\ UNCHANGED << connVars, writer, msg, pipe, pipe_eof >>

NextCodec ==
    \/ CodecSend
    \/ CodecClose
    \/ CodecRead

SpecCodec == InitCodec /\ [][NextCodec]_vars

\* C11: codec round trip. For every body, the header send_msg wrote declares the
\* number of body bytes it wrote after the blank line (the UTF-8 length, not the
\* number of characters), and read_msg on those bytes returns the body exactly
\* and leaves nothing in the pipe.
C11_CodecRoundTrip ==
    writer = "send_msg" =>
      /\ codec_pc \in {"read", "done"} =>
           /\ StartsWith(pipe, ContentLengthPrefix)
           /\ ParseInt(SubSeq(pipe, Len(ContentLengthPrefix) + 1, LineEnd(pipe))).value
                = Len(pipe) - LineEnd(pipe) - 2
           /\ ReadMsgBytes(pipe, pipe_eof).kind # "blocked"
      /\ codec_pc = "done" =>
           /\ read_result.kind = "frame"
           /\ read_result.body = msg
           /\ read_result.declared = Len(pipe) - LineEnd(pipe) - 2
           /\ read_result.rest = << >>

\* Three characters in seven bytes went through.
C11_Witness ==
    /\ codec_pc = "done"
    /\ msg = << 128512, 233, 10 >>
    /\ read_result.body = msg
    /\ read_result.declared = 7

\* The header line of a stream, and what follows the literal prefix in it.
HeaderLine(bs) == IF LineEnd(bs) > 0 THEN SubSeq(bs, 1, LineEnd(bs)) ELSE bs

HeaderRemainder(bs) == SubSeq(HeaderLine(bs), Len(ContentLengthPrefix) + 1, Len(HeaderLine(bs)))

\* cs is a non-negative integer in decimal: digits alone, blanks around and a
\* sign allowed, a minus only before zeros.
DenotesNonNegInt(cs) ==
    LET t == StripRight(StripLeft(cs))
        d == IF t # << >> /\ t[1] \in {43, 45} THEN Tail(t) ELSE t
    IN /\ d # << >>
       /\ \A i \in DOMAIN d : IsDigit(d[i])
       /\ (t[1] = 45 => \A i \in DOMAIN d : d[i] = 48)

\* C13: read_msg classifies its failures. End-of-stream before any header byte
\* gives LSPExited; a header line that does not begin with "Content-Length: ",
\* or whose remainder is not a non-negative integer, gives an error other than
\* LSPExited; and in none of these cases a body is returned.
C13_ReadFailures ==
    (writer = "backend" /\ codec_pc = "done") =>
      /\ pipe = << >> => read_result.kind = "LSPExited"
      /\ (pipe # << >> /\ ~StartsWith(HeaderLine(pipe), ContentLengthPrefix)) =>
           read_result.kind \notin {"frame", "LSPExited"}
      /\ (StartsWith(HeaderLine(pipe), ContentLengthPrefix)
            /\ ~DenotesNonNegInt(HeaderRemainder(pipe))) =>
           read_result.kind \notin {"frame", "LSPExited"}

(***************************************************************************)
(* __aexit__ on its own: a handle whose body has ended, shut down more     *)
(* than once.                                                              *)
(***************************************************************************)
MaxShutdownCalls == 2

\* A handle after __aenter__: the process runs, or has exited with the event
\* loop knowing it or not yet.
InitShutdown ==
    /\ \E e \in Endpoints : command = e.cmd /\ compiler_options = e.opts
    /\ pc = "aexit"
    /\ tmpdir = (IF compiler_options.is_none THEN "None" ELSE "written")
    /\ compile_flags = (IF compiler_options.is_none THEN NoFile
                        ELSE [state |-> "closed", text |-> FlagsText(compiler_options.text)])
    /\ flagsAtSpawn = compile_flags
    /\ \E st \in { << "running", "None" >>, << "exited", "None" >>, << "exited", "set" >> } :
         proc = st[1] /\ returncode = st[2]
    /\ stdout = << >>
    /\ nEmitted = 0
    /\ stdin = << >>
    /\ client = "connected"
    /\ wsInbox = << >>
    /\ nSent = 0
    /\ wsOut = << >>
    /\ closeReason = "none"
    /\ ws_read = "none"
    /\ ws_result = NoResult
    /\ proc_read = "none"
    /\ proc_result = NoResult
    /\ wsLive = 0
    /\ procLive = 0
    /\ done = {}
    /\ discarded = << >>
    /\ n_messages_from_ws = 0
    /\ n_messages_from_lsp = 0
    /\ now = 0
    /\ last_log_time = 0
    /\ reports = << >>
    /\ raised = "none"
    /\ exc = "none"
    /\ escaped = "none"
    /\ aexitCalls = 0
    /\ killCalls = 0
    /\ sigterm = "none"
    /\ events = << >>
    /\ preempted = FALSE
    /\ CodecIdle

\* __aexit__ is called again on the same handle.
ShutdownAgain ==
    /\ pc = "done"
    /\ aexitCalls < MaxShutdownCalls
    /\ pc' = "aexit"
    /\ UNCHANGED << cfgVars, codecVars, now, fileVars, envVars, taskVars, countVars, tmpdir, stdin, wsOut, closeReason,
                    discarded, raised, exc, escaped, aexitCalls, killCalls, sigterm,
                    events, preempted >>

NextShutdown ==
    \/ AExit
    \/ AExitWait
    \/ ShutdownAgain
    \/ ProcEmit
    \/ ProcExit
    \/ ChildWatcher

SpecShutdown == InitShutdown /\ [][NextShutdown]_vars

\* C9: idempotent shutdown. Over any number of calls of __aexit__ on one handle,
\* os.killpg is called at most once and nothing is raised, also when the group
\* is already gone (ProcessLookupError); a call that finds returncode set sends
\* no signal and returns at once.
C9_IdempotentShutdown ==
    /\ [](killCalls <= 1 /\ escaped = "none" /\ (sigterm # "none" => killCalls = 1))
    /\ [][aexitCalls' # aexitCalls /\ returncode = "set" =>
            killCalls' = killCalls /\ sigterm' = sigterm /\ pc' = "done"]_vars
    /\ [][aexitCalls' # aexitCalls /\ returncode = "None" =>
            killCalls' = killCalls + 1 /\ pc' = "aexit_wait"]_vars

\* Two calls completed on a handle whose process ran: one SIGTERM, one reaping.
C9_Witness ==
    /\ pc = "done"
    /\ aexitCalls = 2
    /\ killCalls = 1
    /\ sigterm = "group"
    /\ tmpdir = "removed"

====
